---- MODULE Spec2Model ----
(***************************************************************************)
(* Dual contouring mesh generation of fast_dc.cpp.                         *)
(*                                                                         *)
(* A uint32_t is the pair <<hi, lo>> of its two 16-bit halves (TLC's       *)
(* integers are 32-bit signed, the edge IDs of axis 2 are not); addition   *)
(* and subtraction carry and borrow between the halves and wrap at 2^32.   *)
(*                                                                         *)
(* Density() is an external function; the model keeps its value at each    *)
(* grid corner (the scan only compares it with 0).  EdgeInfo keeps the     *)
(* winding flag; pos and normal are floats the external solver consumes    *)
(* and are represented by the identity of the edge they belong to.         *)
(*                                                                         *)
(* TLC computes a LET definition anew at each use inside a quantifier; an  *)
(* intermediate result used more than once is therefore bound as the       *)
(* element of a one-element set.                                           *)
(***************************************************************************)
EXTENDS Integers, Sequences, FiniteSets, TLC

\* ---------------------------------------------------------------- bounds
\* GenerateMesh is run for cellSize in 1..MaxGridSize
MaxGridSize == 2
\* the unordered containers are iterated with 1..MaxBuckets buckets
MaxBuckets == 2
\* lookups are probed within Near cells of either end of a coordinate's range
Near == 1

\* --------------------------------------------------------- 32-bit words
ToU32(n) == << (n \div 65536) % 65536, n % 65536 >>

\* n << k as a 32-bit word, for the shifts the encoders use
Shl32(n, k) ==
    IF k >= 16 THEN << (n * (2 ^ (k - 16))) % 65536, 0 >>
               ELSE ToU32(n * (2 ^ k))

RECURSIVE BitOr(_, _)
BitOr(m, n) ==
    IF m = 0 THEN n
    ELSE IF n = 0 THEN m
    ELSE (IF m % 2 = 1 \/ n % 2 = 1 THEN 1 ELSE 0) + 2 * BitOr(m \div 2, n \div 2)

Or32(a, b) == << BitOr(a[1], b[1]), BitOr(a[2], b[2]) >>

Add32(a, b) ==
    LET lo == a[2] + b[2]
        hi == a[1] + b[1] + (lo \div 65536)
    IN  << hi % 65536, lo % 65536 >>

Sub32(a, b) ==
    LET lo == a[2] - b[2]
        hi == a[1] - b[1] + (lo \div 65536)
    IN  << hi % 65536, lo % 65536 >>

Less32(a, b) == a[1] < b[1] \/ (a[1] = b[1] /\ a[2] < b[2])

\* ---------------------------------------------------------------- tables
EDGE_NODE_OFFSETS ==
    << << <<0, 0, 0>>, <<0, 0, 1>>, <<0, 1, 0>>, <<0, 1, 1>> >>,
       << <<0, 0, 0>>, <<1, 0, 0>>, <<0, 0, 1>>, <<1, 0, 1>> >>,
       << <<0, 0, 0>>, <<0, 1, 0>>, <<1, 0, 0>>, <<1, 1, 0>> >> >>

ENCODED_EDGE_NODE_OFFSETS ==
    << <<0, 0>>, <<16, 0>>, <<0, 1024>>, <<16, 1024>>,
       <<0, 0>>, <<0, 1>>,  <<16, 0>>,   <<16, 1>>,
       <<0, 0>>, <<0, 1024>>, <<0, 1>>,  <<0, 1025>> >>

ENCODED_EDGE_OFFSETS ==
    << <<0, 0>>,     <<16, 0>>,       <<0, 1024>>,  <<16, 1024>>,
       <<16384, 0>>, <<16400, 0>>,    <<16384, 1>>, <<16400, 1>>,
       <<32768, 0>>, <<32768, 1024>>, <<32768, 1>>, <<32768, 1025>> >>

\* ------------------------------------------------------------ identifiers
EncodeVoxelUniqueID(idxPos) ==
    Or32(Or32(ToU32(idxPos[1]), Shl32(idxPos[2], 10)), Shl32(idxPos[3], 20))

DecodeVoxelUniqueID(id) ==
    << id[2] % 1024,
       ((id[1] % 16) * 64) + (id[2] \div 1024),
       (id[1] \div 16) % 1024 >>

EncodeAxisUniqueIDShift9(axis, x, y, z) ==
    Or32(Or32(Or32(Shl32(x, 0), Shl32(y, 9)), Shl32(z, 20)), Shl32(axis, 30))

EncodeAxisUniqueID(axis, x, y, z) ==
    Or32(Or32(Or32(Shl32(x, 0), Shl32(y, 10)), Shl32(z, 20)), Shl32(axis, 30))

\* (edge >> 30) & 0xff
EdgeAxis(edge) == edge[1] \div 16384

\* edge & ~0xc0000000
EdgeNodeID(edge) == << edge[1] % 16384, edge[2] >>

\* ------------------------------------------------- unordered containers
\* std::hash<uint32_t> is the identity; an element's bucket is id % buckets
Bucket(id, buckets) == (((id[1] % buckets) * (65536 % buckets)) + id[2]) % buckets

Before(a, b, buckets) ==
    \/ Bucket(a, buckets) < Bucket(b, buckets)
    \/ Bucket(a, buckets) = Bucket(b, buckets) /\ Less32(a, b)

\* position in the walk, from 0, paired with the element
Ranked(S, buckets) ==
    { << Cardinality({b \in S : Before(b, a, buckets)}), a >> : a \in S }

RECURSIVE Walk(_, _, _)
Walk(ranked, k, n) ==
    IF k = n THEN << >>
    ELSE << (CHOOSE p \in ranked : p[1] = k)[2] >> \o Walk(ranked, k + 1, n)

RECURSIVE Reverse(_)
Reverse(s) == IF s = << >> THEN << >> ELSE Append(Reverse(Tail(s)), Head(s))

\* the elements of S bucket by bucket, each bucket in ascending order
BucketOrder(S, buckets) ==
    CHOOSE s \in { Walk(ranked, 0, Cardinality(ranked)) : ranked \in {Ranked(S, buckets)} } : TRUE

\* the order a range-for visits the elements of S in: unspecified, here one
\* of a family indexed by the bucket count and the direction of the walk
IterationOrder(S, buckets, backwards) ==
    IF backwards THEN Reverse(BucketOrder(S, buckets)) ELSE BucketOrder(S, buckets)

\* ------------------------------------------------------ FindActiveVoxels
ZeroCrossingOneWay(pDensity, qDensity) == pDensity >= 0 /\ qDensity < 0

ZeroCrossingAlwaysInside(pDensity, qDensity) ==
    (pDensity >= 0 /\ qDensity < 0) \/ pDensity < 0

ZeroCrossing(pDensity, qDensity) ==
    (pDensity >= 0 /\ qDensity < 0) \/ (pDensity < 0 /\ qDensity >= 0)

Winding(pDensity) == pDensity >= 0

OutsideBoundsXY(nodeIdxPos) == nodeIdxPos[1] < 0 \/ nodeIdxPos[2] < 0

OutsideBounds(nodeIdxPos) ==
    nodeIdxPos[1] < 0 \/ nodeIdxPos[2] < 0 \/ nodeIdxPos[3] < 0

AxisUnit(axis) == [k \in 1..3 |-> IF k = axis + 1 THEN 1 ELSE 0]

Minus3(a, b) == << a[1] - b[1], a[2] - b[2], a[3] - b[3] >>
Plus3(a, b) == << a[1] + b[1], a[2] + b[2], a[3] + b[3] >>

\* the four voxels of one crossing edge, the ones with a negative coordinate left out
RECURSIVE InsertNodes(_, _, _, _)
InsertNodes(voxels, idxPos, axis, i) ==
    IF i = 4 THEN voxels
    ELSE LET nodeIdxPos == Minus3(idxPos, EDGE_NODE_OFFSETS[axis + 1][i + 1])
             nodeID == EncodeVoxelUniqueID(nodeIdxPos)
         IN  IF OutsideBounds(nodeIdxPos)
             THEN InsertNodes(voxels, idxPos, axis, i + 1)
             ELSE InsertNodes(voxels \cup {nodeID}, idxPos, axis, i + 1)

MapPut(m, k, v) == [j \in (DOMAIN m) \cup {k} |-> IF j = k THEN v ELSE m[j]]

\* the body of the axis loop for one corner and one axis
ScanEdge(st, dens, x, y, z, axis) ==
    LET idxPos == << x, y, z >>
        pDensity == dens[idxPos]
        qDensity == dens[Plus3(idxPos, AxisUnit(axis))]
    IN  IF ~ZeroCrossing(pDensity, qDensity) THEN st
        ELSE LET info == [winding |-> Winding(pDensity)]
                 code == EncodeAxisUniqueID(axis, x, y, z)
             IN  [activeEdges  |-> MapPut(st.activeEdges, code, info),
                  activeVoxels |-> InsertNodes(st.activeVoxels, idxPos, axis, 0)]

\* the loops over x, y, z and axis, n counting the iterations done so far
RECURSIVE ScanFrom(_, _, _, _)
ScanFrom(st, dens, size, n) ==
    IF n >= size * size * size * 3 THEN st
    ELSE ScanFrom(ScanEdge(st, dens,
                           n \div (size * size * 3),
                           (n \div (size * 3)) % size,
                           (n \div 3) % size,
                           n % 3),
                  dens, size, n + 1)

EmptyMap == [j \in {} |-> 0]

FindActiveVoxelsResult(dens, size) ==
    ScanFrom([activeEdges |-> EmptyMap, activeVoxels |-> {}], dens, size, 0)

\* ---------------------------------------------------- GenerateVertexData
InitIdxHoisted(carried) == carried

\* int idx = 0, declared inside the loop over the voxels
InitIdx(carried) == 0

ShouldPlaceAtLeastOne(idx) == idx > 0

ShouldPlace(idx) == idx > 1

VertexIndexPreIncrement(idxCounter) == idxCounter + 1

\* the value of idxCounter++
VertexIndex(idxCounter) == idxCounter

\* the edges found among voxelID + ENCODED_EDGE_OFFSETS[0..11], in table order
RECURSIVE FoundEdges(_, _, _)
FoundEdges(voxelID, edges, i) ==
    IF i = 12 THEN << >>
    ELSE LET edgeID == Add32(voxelID, ENCODED_EDGE_OFFSETS[i + 1])
         IN  IF edgeID \in DOMAIN edges
             THEN << edgeID >> \o FoundEdges(voxelID, edges, i + 1)
             ELSE FoundEdges(voxelID, edges, i + 1)

\* the body of the loop over the voxels
PlaceVoxel(st, voxelID, edges) ==
    LET found == FoundEdges(voxelID, edges, 0)
        idx == InitIdx(st.idx) + Len(found)
        called == [st EXCEPT !.idx = idx, !.qefCalls = @ \cup {idx}]
    IN  IF ShouldPlace(idx)
        THEN [called EXCEPT
                 !.vertexIndices = MapPut(@, voxelID, VertexIndex(st.idxCounter)),
                 !.idxCounter = @ + 1,
                 !.numVertices = @ + 1,
                 !.vertices = Append(@, [samples |-> found])]
        ELSE called

\* the loop over the voxels, k the position in the walk
RECURSIVE PlaceAll(_, _, _, _)
PlaceAll(st, order, k, edges) ==
    IF k > Len(order) THEN st
    ELSE CHOOSE r \in { PlaceAll(next, order, k + 1, edges) :
                           next \in {PlaceVoxel(st, order[k], edges)} } : TRUE

GenerateVertexDataResult(order, edges) ==
    PlaceAll([vertexIndices |-> EmptyMap, vertices |-> << >>, numVertices |-> 0,
              idxCounter |-> 0, idx |-> 0, qefCalls |-> {}], order, 1, edges)

\* ----------------------------------------------------- GenerateTriangles
VoxelIDs(edge) ==
    [i \in 1..4 |-> Sub32(EdgeNodeID(edge),
                          ENCODED_EDGE_NODE_OFFSETS[(EdgeAxis(edge) * 4) + i])]

RECURSIVE FoundVoxels(_, _, _)
FoundVoxels(voxelIDs, vertexIndices, i) ==
    IF i = 4 THEN << >>
    ELSE IF voxelIDs[i + 1] \in DOMAIN vertexIndices
         THEN << vertexIndices[voxelIDs[i + 1]] >> \o FoundVoxels(voxelIDs, vertexIndices, i + 1)
         ELSE FoundVoxels(voxelIDs, vertexIndices, i + 1)

TooFewVoxelsThree(numFoundVoxels) == numFoundVoxels < 3

TooFewVoxels(numFoundVoxels) == numFoundVoxels < 4

QuadSameWinding(edgeVoxels, winding) ==
    << << edgeVoxels[1], edgeVoxels[2], edgeVoxels[4] >>,
       << edgeVoxels[1], edgeVoxels[4], edgeVoxels[3] >> >>

Quad(edgeVoxels, winding) ==
    IF winding
    THEN << << edgeVoxels[1], edgeVoxels[2], edgeVoxels[4] >>,
            << edgeVoxels[1], edgeVoxels[4], edgeVoxels[3] >> >>
    ELSE << << edgeVoxels[1], edgeVoxels[4], edgeVoxels[2] >>,
            << edgeVoxels[1], edgeVoxels[3], edgeVoxels[4] >> >>

\* an index read from edgeVoxels beyond numFoundVoxels is uninitialised
Padded(edgeVoxels) == [k \in 1..4 |-> IF k <= Len(edgeVoxels) THEN edgeVoxels[k] ELSE -1]

\* the body of the loop over the edges
TriangulateEdge(st, edge, info, vertexIndices) ==
    LET edgeVoxels == FoundVoxels(VoxelIDs(edge), vertexIndices, 0)
    IN  IF TooFewVoxels(Len(edgeVoxels)) THEN st
        ELSE [triangles    |-> st.triangles \o Quad(Padded(edgeVoxels), info.winding),
              numTriangles |-> st.numTriangles + 2]

\* the loop over the edges, k the position in the walk
RECURSIVE TriangulateAll(_, _, _, _, _)
TriangulateAll(st, order, k, edges, vertexIndices) ==
    IF k > Len(order) THEN st
    ELSE CHOOSE r \in { TriangulateAll(next, order, k + 1, edges, vertexIndices) :
                           next \in {TriangulateEdge(st, order[k], edges[order[k]], vertexIndices)} } : TRUE

GenerateTrianglesResult(order, edges, vertexIndices) ==
    TriangulateAll([triangles |-> << >>, numTriangles |-> 0], order, 1, edges, vertexIndices)

\* ------------------------------------------------------------------ state
VARIABLES
    gridSize,       \* cellSize / voxelGridSize
    density,        \* Density() at the corners of the region
    pc,             \* the statement of GenerateMesh that runs next
    activeVoxels,
    activeEdges,
    vertexIndices,
    buffer,         \* the MeshBuffer
    qefCalls,       \* the sample counts qef_solve_from_points_4d was called with
    call,           \* 1 for the first call of GenerateMesh, 2 for the second
    previous,       \* the counts the first call returned
    probe           \* the last single lookup or encoding carried out, with its result

vars == << gridSize, density, pc, activeVoxels, activeEdges, vertexIndices,
           buffer, qefCalls, call, previous, probe >>

Corners(size) == (0..size) \X (0..size) \X (0..size)

\* density fields: any values at the 8 corners of one voxel, the first or the
\* last of the region, and one value at every other corner
DensityFields(size) ==
    { [c \in Corners(size) |->
          IF \A k \in 1..3 : c[k] - o \in 0..1
          THEN cube[<< c[1] - o, c[2] - o, c[3] - o >>]
          ELSE rest] :
      cube \in [(0..1) \X (0..1) \X (0..1) -> {-1, 0}],
      rest \in {-1, 0},
      o \in {0, size - 1} }

NoPrevious == [numVertices |-> 0, numTriangles |-> 0]

NoProbe == [op |-> "none"]

EmptyBuffer == [vertices |-> << >>, numVertices |-> 0, triangles |-> << >>, numTriangles |-> 0]

Init ==
    /\ gridSize \in 1..MaxGridSize
    /\ density \in DensityFields(gridSize)
    /\ pc = "FindActiveVoxels"
    /\ activeVoxels = {}
    /\ activeEdges = EmptyMap
    /\ vertexIndices = EmptyMap
    /\ buffer = EmptyBuffer
    /\ qefCalls = {}
    /\ call = 1
    /\ previous = NoPrevious
    /\ probe = NoProbe

FindActiveVoxels ==
    /\ pc = "FindActiveVoxels"
    /\ LET r == FindActiveVoxelsResult(density, gridSize)
       IN  /\ activeVoxels' = r.activeVoxels
           /\ activeEdges' = r.activeEdges
    /\ pc' = "GenerateVertexData"
    /\ UNCHANGED << gridSize, density, vertexIndices, buffer, qefCalls, call, previous, probe >>

GenerateVertexData ==
    /\ pc = "GenerateVertexData"
    /\ \E buckets \in 1..MaxBuckets, backwards \in BOOLEAN :
         \E order \in {IterationOrder(activeVoxels, buckets, backwards)} :
           \E r \in {GenerateVertexDataResult(order, activeEdges)} :
             /\ vertexIndices' = r.vertexIndices
             /\ buffer' = [buffer EXCEPT !.vertices = r.vertices,
                                         !.numVertices = r.numVertices]
             /\ qefCalls' = r.qefCalls
    /\ pc' = "GenerateTriangles"
    /\ UNCHANGED << gridSize, density, activeVoxels, activeEdges, call, previous, probe >>

GenerateTriangles ==
    /\ pc = "GenerateTriangles"
    /\ \E buckets \in 1..MaxBuckets, backwards \in BOOLEAN :
         \E keys \in {DOMAIN activeEdges} :
           \E order \in {IterationOrder(keys, buckets, backwards)} :
             \E r \in {GenerateTrianglesResult(order, activeEdges, vertexIndices)} :
               buffer' = [buffer EXCEPT !.triangles = r.triangles,
                                        !.numTriangles = r.numTriangles]
    /\ pc' = "done"
    /\ UNCHANGED << gridSize, density, activeVoxels, activeEdges, vertexIndices,
                    qefCalls, call, previous, probe >>

\* GenerateMesh called once more with the same arguments
GenerateMeshAgain ==
    /\ pc = "done"
    /\ call = 1
    /\ call' = 2
    /\ previous' = [numVertices |-> buffer.numVertices,
                    numTriangles |-> buffer.numTriangles]
    /\ pc' = "FindActiveVoxels"
    /\ activeVoxels' = {}
    /\ activeEdges' = EmptyMap
    /\ vertexIndices' = EmptyMap
    /\ buffer' = EmptyBuffer
    /\ qefCalls' = {}
    /\ UNCHANGED << gridSize, density, probe >>

Next ==
    \/ FindActiveVoxels
    \/ GenerateVertexData
    \/ GenerateTriangles
    \/ GenerateMeshAgain

Spec == Init /\ [][Next]_vars

\* ------------------------------------------- single lookups at the limits
\* The region sizes at the two ends of the range of a 10-bit coordinate.
GridSizes == {1, 2, 1023, 1024}

\* coordinates the probed voxels and edges take, and the coordinates any
\* lookup made from them can land on (a table entry moves a coordinate by at
\* most 1, a carry or borrow by 1 more)
ProbeCoords(size) == {c \in 0..(size - 1) : c < Near \/ c >= size - Near}
KeyCoords(size) == {c \in 0..(size - 1) : c < Near + 2 \/ c >= size - (Near + 2)}

\* coordinates an encoding is probed at: the limits and the bit positions
\* where a field crosses a half word
CodecCoords == ProbeCoords(1024) \cup {63, 64, 511, 512}

Cube(S) == S \X S \X S

\* Density of a checkerboard: every scanned edge is a crossing
Checker(c) == IF (c[1] + c[2] + c[3]) % 2 = 0 THEN 0 ELSE -1

CheckerEdgeKeys(size) ==
    { EncodeAxisUniqueID(axis, c[1], c[2], c[3]) : axis \in 0..2, c \in Cube(KeyCoords(size)) }

CheckerVoxelKeys(size) == { EncodeVoxelUniqueID(c) : c \in Cube(KeyCoords(size)) }

\* The state GenerateMesh is in before GenerateTriangles for a checkerboard
\* density: every scanned edge is recorded and every cell has a vertex.  Of
\* the maps the entries with all coordinates in KeyCoords are kept (no probe
\* reaches another one), the vertices numbered among themselves.
InitCodec ==
    /\ gridSize \in GridSizes
    /\ density = [c \in Cube(KeyCoords(gridSize + 1)) |-> Checker(c)]
    /\ pc = "GenerateTriangles"
    /\ activeVoxels = CheckerVoxelKeys(gridSize)
    /\ activeEdges = [id \in CheckerEdgeKeys(gridSize) |->
                         [winding |-> Winding(Checker(DecodeVoxelUniqueID(id)))]]
    /\ vertexIndices = [id \in CheckerVoxelKeys(gridSize) |->
                           Cardinality({o \in CheckerVoxelKeys(gridSize) : Less32(o, id)})]
    /\ buffer = [EmptyBuffer EXCEPT !.numVertices = Cardinality(CheckerVoxelKeys(gridSize))]
    /\ qefCalls = {3}
    /\ call = 1
    /\ previous = NoPrevious
    /\ probe = NoProbe

Kept == << gridSize, density, pc, activeVoxels, activeEdges, vertexIndices,
           buffer, qefCalls, call, previous >>

\* EncodeAxisUniqueID and EncodeVoxelUniqueID of one corner, decoded again
EncodeDecode ==
    /\ probe = NoProbe
    /\ \E axis \in 0..2, c \in Cube(CodecCoords) :
         LET id == EncodeAxisUniqueID(axis, c[1], c[2], c[3])
             voxelID == EncodeVoxelUniqueID(c)
         IN  probe' = [op |-> "encode", axis |-> axis, pos |-> c,
                       id |-> id, voxelID |-> voxelID,
                       idAxis |-> EdgeAxis(id),
                       idPos |-> DecodeVoxelUniqueID(id),
                       voxelPos |-> DecodeVoxelUniqueID(voxelID)]
    /\ UNCHANGED Kept

\* one pass of the loop over i of GenerateVertexData, for one active voxel
EdgeLookup ==
    /\ probe = NoProbe
    /\ \E c \in Cube(ProbeCoords(gridSize)), i \in 0..11 :
         LET voxelID == EncodeVoxelUniqueID(c)
             edgeID == Add32(voxelID, ENCODED_EDGE_OFFSETS[i + 1])
         IN  /\ voxelID \in activeVoxels
             /\ probe' = [op |-> "edge", pos |-> c, i |-> i, edgeID |-> edgeID,
                          found |-> edgeID \in DOMAIN activeEdges]
    /\ UNCHANGED Kept

\* one pass of the loop over i of GenerateTriangles, for one recorded edge
VoxelLookup ==
    /\ probe = NoProbe
    /\ \E axis \in 0..2, c \in Cube(ProbeCoords(gridSize)), i \in 0..3 :
         LET edge == EncodeAxisUniqueID(axis, c[1], c[2], c[3])
             voxelID == VoxelIDs(edge)[i + 1]
         IN  /\ edge \in DOMAIN activeEdges
             /\ probe' = [op |-> "voxel", axis |-> axis, pos |-> c, i |-> i,
                          voxelID |-> voxelID,
                          found |-> voxelID \in DOMAIN vertexIndices]
    /\ UNCHANGED Kept

NextCodec ==
    \/ EncodeDecode
    \/ EdgeLookup
    \/ VoxelLookup

SpecCodec == InitCodec /\ [][NextCodec]_vars

\* ------------------------------------------------------------ properties
Cells(size) == (0..(size - 1)) \X (0..(size - 1)) \X (0..(size - 1))

Placed == pc \in {"GenerateTriangles", "done"}

\* the number of the 12 edge IDs of a voxel that are keys of the edge map
NumFound(voxelID) ==
    Cardinality({i \in 1..12 : Add32(voxelID, ENCODED_EDGE_OFFSETS[i]) \in DOMAIN activeEdges})

\* C1: every index of every emitted triangle lies in [0, numVertices) and is
\* the index GenerateVertexData assigned to some voxel of VertexIndexMap
C1_TriangleIndicesExist ==
    \A t \in 1..Len(buffer.triangles) : \A k \in 1..3 :
        /\ buffer.triangles[t][k] \in 0..(buffer.numVertices - 1)
        /\ \E v \in DOMAIN vertexIndices : vertexIndices[v] = buffer.triangles[t][k]

C1_Witness == pc = "done" /\ buffer.numTriangles > 0 /\ Len(buffer.triangles) > 0

\* C2: once GenerateVertexData has run, an active voxel has a vertex and an
\* index iff at least 2 of its 12 edge IDs are in the edge map, and
\* numVertices counts exactly those voxels
C2_VertexIffTwoEdges ==
    /\ DOMAIN vertexIndices \subseteq activeVoxels
    /\ ~Placed => DOMAIN vertexIndices = {}
    /\ Placed =>
         /\ \A v \in activeVoxels : (v \in DOMAIN vertexIndices) <=> (NumFound(v) >= 2)
         /\ buffer.numVertices = Cardinality({v \in activeVoxels : NumFound(v) >= 2})
         /\ Len(buffer.vertices) = buffer.numVertices
         /\ \A v \in DOMAIN vertexIndices : vertexIndices[v] \in 0..(buffer.numVertices - 1)
         /\ \A v, w \in DOMAIN vertexIndices : vertexIndices[v] = vertexIndices[w] => v = w

C2_Witness ==
    /\ pc = "done"
    /\ \E v \in activeVoxels : NumFound(v) = 1
    /\ \E v \in activeVoxels : NumFound(v) >= 2
    /\ buffer.numVertices > 0

\* C3: every active voxel, and every key of VertexIndexMap, is the ID of a
\* cell with all three coordinates in [0, gridSize)
C3_VoxelsInsideGrid ==
    activeVoxels \cup DOMAIN vertexIndices
        \subseteq { EncodeVoxelUniqueID(c) : c \in Cells(gridSize) }

\* an edge at the corner (0,0,0) was recorded: three of its four voxels have a coordinate of -1
C3_Witness ==
    /\ pc = "done"
    /\ EncodeAxisUniqueID(0, 0, 0, 0) \in DOMAIN activeEdges
    /\ activeVoxels # {}
    /\ DOMAIN vertexIndices # {}

NoSignChange ==
    \A c \in Cells(gridSize) : \A axis \in 0..2 :
        \/ density[c] >= 0 /\ density[Plus3(c, AxisUnit(axis))] >= 0
        \/ density[c] < 0 /\ density[Plus3(c, AxisUnit(axis))] < 0

\* C4: with no sign change on any scanned edge no edge and no active voxel is
\* recorded and the buffer has no vertex and no triangle
C4_NoCrossingEmptyMesh ==
    NoSignChange =>
        /\ DOMAIN activeEdges = {}
        /\ activeVoxels = {}
        /\ buffer.numVertices = 0
        /\ buffer.numTriangles = 0
        /\ buffer.vertices = << >>
        /\ buffer.triangles = << >>

\* the density is not constant, yet its sign changes lie on edges the scan does not visit
C4_Witness ==
    /\ pc = "done"
    /\ NoSignChange
    /\ \E c \in Corners(gridSize) : density[c] < 0
    /\ \E c \in Corners(gridSize) : density[c] >= 0

\* C5: the second call of GenerateMesh with the same arguments returns the
\* counts of the first, whatever orders the two calls iterated in
C5_SameCounts ==
    (call = 2 /\ pc = "done") =>
        /\ buffer.numVertices = previous.numVertices
        /\ buffer.numTriangles = previous.numTriangles

\* the second call has returned a mesh whose vertices are not numbered in
\* ascending order of the voxel IDs, the order the first call may have used
C5_Witness ==
    /\ call = 2
    /\ pc = "done"
    /\ buffer.numTriangles > 0
    /\ previous.numVertices > 1
    /\ \E v, w \in DOMAIN vertexIndices : Less32(v, w) /\ vertexIndices[w] < vertexIndices[v]

\* C8: the solver is called with 2 to 12 samples only
C8_SolverCalledWithTwoOrMore == \A n \in qefCalls : n \in 2..12

\* the winding flag the claim gives an edge: the density at its lower endpoint is >= 0
LowerEndpointOutside(edge) == density[DecodeVoxelUniqueID(edge)] >= 0

FullEdges == {e \in DOMAIN activeEdges : \A i \in 1..4 : VoxelIDs(e)[i] \in DOMAIN vertexIndices}

ExpectedQuad(edge) ==
    LET v == [i \in 1..4 |-> vertexIndices[VoxelIDs(edge)[i]]]
    IN  IF LowerEndpointOutside(edge)
        THEN << << v[1], v[2], v[4] >>, << v[1], v[4], v[3] >> >>
        ELSE << << v[1], v[4], v[2] >>, << v[1], v[3], v[4] >> >>

\* C9: once GenerateTriangles has run, the triangle array consists of exactly
\* one pair of triangles, in the winding of the edge, for each recorded edge
\* whose 4 voxel IDs all have an index, and numTriangles is twice their number
C9_TwoTrianglesPerFullEdge ==
    /\ pc # "done" => buffer.numTriangles = 0 /\ buffer.triangles = << >>
    /\ pc = "done" =>
         /\ buffer.numTriangles = 2 * Cardinality(FullEdges)
         /\ Len(buffer.triangles) = buffer.numTriangles
         /\ { << buffer.triangles[(2 * k) - 1], buffer.triangles[2 * k] >> :
                k \in 1..Cardinality(FullEdges) }
              = { ExpectedQuad(e) : e \in FullEdges }

C9_Witness ==
    /\ pc = "done"
    /\ \E e \in FullEdges : LowerEndpointOutside(e)
    /\ \E e \in FullEdges : ~LowerEndpointOutside(e)
    /\ \E e \in DOMAIN activeEdges : e \notin FullEdges

\* the 12 edges of a cell, from its coordinates
CellEdges(c) ==
    { << axis, Plus3(c, EDGE_NODE_OFFSETS[axis + 1][i]) >> : axis \in 0..2, i \in 1..4 }

CellEdgesFound(c) ==
    { e \in CellEdges(c) :
        EncodeAxisUniqueID(e[1], e[2][1], e[2][2], e[2][3]) \in DOMAIN activeEdges }

Interior(c) == \A k \in 1..3 : c[k] <= gridSize - 2

\* the 4 cells around an edge, from its coordinates
EdgeCells(edge) ==
    { Minus3(DecodeVoxelUniqueID(edge), EDGE_NODE_OFFSETS[EdgeAxis(edge) + 1][i]) : i \in 1..4 }

OnRim(c) == \E k \in 1..3 : c[k] = gridSize - 1 \/ c[k] = -1

C6_EncodeRoundTrip ==
    probe.op = "encode" =>
        /\ probe.idAxis = probe.axis
        /\ probe.idPos = probe.pos
        /\ probe.voxelPos = probe.pos
        /\ probe.axis = 0 => probe.id = probe.voxelID

\* the last corner of the range on the Z axis: every field and the axis tag are full
C6_Witness ==
    /\ probe.op = "encode"
    /\ probe.axis = 2
    /\ probe.pos = << 1023, 1023, 1023 >>
    /\ probe.id = << 49151, 65535 >>

\* the axis and the 3D offset an entry of ENCODED_EDGE_OFFSETS stands for
EntryAxis(i) == EdgeAxis(ENCODED_EDGE_OFFSETS[i + 1])
EntryOffset(i) == DecodeVoxelUniqueID(ENCODED_EDGE_OFFSETS[i + 1])

InRange(c) == \A k \in 1..3 : c[k] \in 0..1023

\* the lookup of GenerateVertexData computed from coordinates: edge i of the cell
EdgeLookupFromCoords(c, i) ==
    LET base == Plus3(c, EntryOffset(i))
    IN  /\ InRange(base)
        /\ EncodeAxisUniqueID(EntryAxis(i), base[1], base[2], base[3]) \in DOMAIN activeEdges

\* the lookup of GenerateTriangles computed from coordinates: cell i around the edge
VoxelLookupFromCoords(axis, c, i) ==
    LET cell == Minus3(c, EDGE_NODE_OFFSETS[axis + 1][i + 1])
    IN  /\ InRange(cell)
        /\ EncodeVoxelUniqueID(cell) \in DOMAIN vertexIndices

TableMatchesCoords ==
    /\ probe.op = "edge" => (probe.found <=> EdgeLookupFromCoords(probe.pos, probe.i))
    /\ probe.op = "voxel" => (probe.found <=> VoxelLookupFromCoords(probe.axis, probe.pos, probe.i))

\* C7: for every gridSize in [1,1024] a lookup through the packed tables
\* finds an entry exactly when the lookup computed from the decoded
\* coordinates does
C7_TableMatchesCoords == gridSize \in 1..1024 => TableMatchesCoords

\* C7, for the region sizes that leave the coordinate 1023 unused
C7_TableMatchesCoordsBelow1024 == gridSize \in 1..1023 => TableMatchesCoords

C7_WitnessBelow1024 ==
    /\ gridSize = 1023
    /\ probe.op = "voxel"
    /\ probe.pos = << 0, 1, 1 >>
    /\ ~probe.found
====
